---- MODULE Spec2Model ----
(***************************************************************************)
(* Smart Tabs (valsorym/vscode-smart-tabs), src/src/extension.ts.          *)
(*                                                                         *)
(* The state is the host's active tab group, the extension's cached        *)
(* configuration, its debounce flag, its outstanding timers and its        *)
(* reaction subscriptions.  Each action is one host callback run to        *)
(* completion: a direct invocation of smart-tabs.moveTab, a host event     *)
(* delivered to the subscribed listeners, a timer callback, a              *)
(* configuration change, deactivation, and the user's own tab operations.  *)
(* Indices handed to and returned by the translated functions are 0-based  *)
(* as in the source; a tab list is a TLA+ sequence, so the tab at source   *)
(* index i is tabs[i + 1].  Times are in milliseconds.                     *)
(***************************************************************************)
EXTENDS Integers, Sequences, FiniteSets, TLC

VARIABLES
    tabs,           \* activeGroup.tabs: sequence of [label, isPinned, isActive]
    groupActive,    \* whether some tab group has isActive = true
    fixedTabs,      \* cached configuration
    activeFirst,
    debounceDelay,
    reactionEvent,
    settings,       \* the smart-tabs settings the host's store holds
    isDebouncing,   \* the debounce flag
    timers,         \* outstanding setTimeout callbacks: remaining ms each
    disposables,    \* live reaction subscriptions (the stream of each)
    activated,      \* command and configuration listener still registered
    op,             \* the callback that ran in the last step
    calls,          \* moveTabWithDebounce invocations in the last step
    evals,          \* smart-tabs.moveTab executions in the last step
    moves,          \* moveActiveEditor commands issued in the last step
    scanResult,     \* <<r>>: what getPositionAfterLastPinnedTab returned when
                    \* last applied on its own, <<>> before that
    window,         \* delay given to the most recent setTimeout
    sinceFire,      \* ms elapsed since the most recent setTimeout (saturating)
    fires           \* debounced executions so far (saturating)

hostVars == <<tabs, groupActive>>
cfgVars  == <<fixedTabs, activeFirst, debounceDelay, reactionEvent>>
extVars  == <<isDebouncing, timers, disposables, activated>>
obsVars  == <<op, calls, evals, moves>>
timeVars == <<window, sinceFire, fires>>
vars == <<tabs, groupActive, fixedTabs, activeFirst, debounceDelay,
          reactionEvent, settings, isDebouncing, timers, disposables, activated,
          op, calls, evals, moves, scanResult, window, sinceFire, fires>>

----------------------------------------------------------------------------
(* Program constants                                                       *)

FIXED_TABS == 3
DEFAULT_DEBOUNCE_DELAY == 300
ACTIVE_FIRST == TRUE
DEFAULT_REACTION_EVENT == "onedit"

(* Bounds of the model                                                     *)

MaxTabs == 3            \* at most this many tabs are open in the group
MaxFixedTabs == 3       \* largest fixedTabs setting explored
Tick == 50              \* largest single advance of the clock, ms
ShortDelay == 100       \* a second non-zero debounceDelay setting, ms
FiresCap == 2           \* the count of debounced executions saturates here

Labels == 1 .. MaxTabs

\* Values the settings store can hand to config.get: the manifest's range is
\* advisory, the store returns whatever the user wrote.
FixedTabsSettings == (0 - 1) .. MaxFixedTabs
DelaySettings == {0, ShortDelay, DEFAULT_DEBOUNCE_DELAY}
ReactionSettings == {"onedit", "onsave", "onfocus", "onopen", "none"}
Streams == {"onDidChangeTextDocument", "onWillSaveTextDocument",
            "onDidChangeActiveTextEditor", "onDidOpenTextDocument"}

Min(a, b) == IF a < b THEN a ELSE b
Max(a, b) == IF a > b THEN a ELSE b

----------------------------------------------------------------------------
(* The host's tab group                                                    *)

NoTab == [label |-> 0, isPinned |-> FALSE, isActive |-> FALSE]

\* activeGroup.activeTab: the tab whose isActive is set, NoTab for undefined
ActiveTab(g) ==
    IF \E i \in 1 .. Len(g) : g[i].isActive
    THEN g[CHOOSE i \in 1 .. Len(g) : g[i].isActive]
    ELSE NoTab

\* number of sticky editors the host keeps at the front of the group
StickyCount(g) == Cardinality({i \in 1 .. Len(g) : g[i].isPinned})

\* 0-based index of the active editor, -1 when there is none
ActiveEditorIndex(g) ==
    IF \E i \in 1 .. Len(g) : g[i].isActive
    THEN (CHOOSE i \in 1 .. Len(g) : g[i].isActive) - 1
    ELSE 0 - 1

RemoveAt(g, i) == SubSeq(g, 1, i - 1) \o SubSeq(g, i + 1, Len(g))
InsertAt(g, i, t) == SubSeq(g, 1, i - 1) \o <<t>> \o SubSeq(g, i, Len(g))

\* variant: the active editor changes places with the one at the target
MoveEditorSwap(g, toIndex) ==
    LET from == ActiveEditorIndex(g)
        to == IF toIndex < 0 THEN 0
              ELSE IF toIndex >= Len(g) THEN Len(g) - 1 ELSE toIndex
    IN  IF from < 0 \/ to = from THEN g
        ELSE [i \in 1 .. Len(g) |->
                 IF i = to + 1 THEN g[from + 1]
                 ELSE IF i = from + 1 THEN g[to + 1]
                 ELSE g[i]]

\* The host's move of the active editor to a 0-based index: the index is
\* clamped to the group, the editor is spliced out and in, and an editor
\* dropped at or before the last sticky slot becomes sticky itself (one
\* dragged out of the sticky run loses its stickiness).
MoveEditor(g, toIndex) ==
    LET from == ActiveEditorIndex(g)
        to == IF toIndex < 0 THEN 0
              ELSE IF toIndex >= Len(g) THEN Len(g) - 1 ELSE toIndex
        lastSticky == StickyCount(g) - 1
    IN  IF from < 0 \/ to = from THEN g
        ELSE LET t == g[from + 1]
                 moved == IF t.isPinned /\ to > lastSticky
                            THEN [t EXCEPT !.isPinned = FALSE]
                          ELSE IF ~t.isPinned /\ to <= lastSticky
                            THEN [t EXCEPT !.isPinned = TRUE]
                          ELSE t
             IN  InsertAt(RemoveAt(g, from + 1), to + 1, moved)

\* The host's moveActiveEditor command with the arguments the extension uses
MoveActiveEditor(g, cmd) ==
    IF cmd.to = "position" THEN MoveEditor(g, cmd.value - 1)
    ELSE IF cmd.to = "last" THEN MoveEditor(g, Len(g) - 1)
    ELSE g

----------------------------------------------------------------------------
(* The reordering policy                                                   *)

\* variant: the loop goes on after the first unpinned tab
RECURSIVE ScanPinnedNoBreak(_, _, _)
ScanPinnedNoBreak(g, i, lastPinnedIndex) ==
    IF i < Len(g)
    THEN IF g[i + 1].isPinned
         THEN ScanPinnedNoBreak(g, i + 1, i)
         ELSE ScanPinnedNoBreak(g, i + 1, lastPinnedIndex)
    ELSE lastPinnedIndex

\* the loop of getPositionAfterLastPinnedTab from index i on
RECURSIVE ScanPinned(_, _, _)
ScanPinned(g, i, lastPinnedIndex) ==
    IF i < Len(g)
    THEN IF g[i + 1].isPinned
         THEN ScanPinned(g, i + 1, i)
         ELSE lastPinnedIndex
    ELSE lastPinnedIndex

\* variant: returns the index of the last pinned tab, not the one after it
getPositionAfterLastPinnedTabOffByOne(g) == ScanPinned(g, 0, 0 - 1)

getPositionAfterLastPinnedTab(g) == ScanPinned(g, 0, 0 - 1) + 1

RECURSIVE ScanActive(_, _, _)
ScanActive(g, i, fromLeft) ==
    IF i < Len(g)
    THEN IF g[i + 1].isActive
         THEN IF fromLeft THEN i ELSE Len(g) - (i + 1)
         ELSE ScanActive(g, i + 1, fromLeft)
    ELSE 0

\* variant: always counts from the left
getActiveTabIndexFromLeft(g, fromLeft) == ScanActive(g, 0, TRUE)

getActiveTabIndex(g, fromLeft) == ScanActive(g, 0, fromLeft)

\* Target of the move toward the start: 1-based position right after the
\* pinned run
\* variant: hands the 0-based index to the 1-based argument
StartPositionZeroBased(offset) == offset

StartPosition(offset) == offset + 1

\* Fixed-band tests of the two directions
\* variant: the pinned run counts against the fixed quota
WithinFixedStartNoOffset(activeTabNum, fixed, offset) == activeTabNum < fixed

\* variant: the band is one slot too wide
WithinFixedEndInclusive(activeTabNum, fixed) == activeTabNum <= fixed

WithinFixedStart(activeTabNum, fixed, offset) == activeTabNum < fixed + offset
WithinFixedEnd(activeTabNum, fixed) == activeTabNum < fixed

\* variant: the handler executes its moveActiveEditor command twice
MoveTabCommandsTwice(hasGroup, g, fixed, first) ==
    IF ~hasGroup THEN <<>>
    ELSE IF ActiveTab(g).isPinned THEN <<>>
    ELSE LET offset == getPositionAfterLastPinnedTab(g)
             activeTabNum == getActiveTabIndex(g, first)
         IN  IF first
             THEN IF WithinFixedStart(activeTabNum, fixed, offset)
                  THEN <<>>
                  ELSE <<[to |-> "position", value |-> StartPosition(offset)],
                         [to |-> "position", value |-> StartPosition(offset)]>>
             ELSE IF WithinFixedEnd(activeTabNum, fixed)
                  THEN <<>>
                  ELSE <<[to |-> "last", value |-> 0], [to |-> "last", value |-> 0]>>

\* variant: the handler goes on without an active group
MoveTabCommandsNoGroupCheck(hasGroup, g, fixed, first) ==
    IF ActiveTab(g).isPinned THEN <<>>
    ELSE LET offset == getPositionAfterLastPinnedTab(g)
             activeTabNum == getActiveTabIndex(g, first)
         IN  IF first
             THEN IF WithinFixedStart(activeTabNum, fixed, offset)
                  THEN <<>>
                  ELSE <<[to |-> "position", value |-> StartPosition(offset)]>>
             ELSE IF WithinFixedEnd(activeTabNum, fixed)
                  THEN <<>>
                  ELSE <<[to |-> "last", value |-> 0]>>

\* variant: the handler without the pinned check
MoveTabCommandsNoPinnedCheck(hasGroup, g, fixed, first) ==
    IF ~hasGroup THEN <<>>
    ELSE LET offset == getPositionAfterLastPinnedTab(g)
             activeTabNum == getActiveTabIndex(g, first)
         IN  IF first
             THEN IF WithinFixedStart(activeTabNum, fixed, offset)
                  THEN <<>>
                  ELSE <<[to |-> "position", value |-> StartPosition(offset)]>>
             ELSE IF WithinFixedEnd(activeTabNum, fixed)
                  THEN <<>>
                  ELSE <<[to |-> "last", value |-> 0]>>

\* The smart-tabs.moveTab handler: the sequence of moveActiveEditor commands
\* it issues (empty or one command) for a group and the cached configuration
MoveTabCommands(hasGroup, g, fixed, first) ==
    IF ~hasGroup THEN <<>>
    ELSE IF ActiveTab(g).isPinned THEN <<>>
    ELSE LET offset == getPositionAfterLastPinnedTab(g)
             activeTabNum == getActiveTabIndex(g, first)
         IN  IF first
             THEN IF WithinFixedStart(activeTabNum, fixed, offset)
                  THEN <<>>
                  ELSE <<[to |-> "position", value |-> StartPosition(offset)]>>
             ELSE IF WithinFixedEnd(activeTabNum, fixed)
                  THEN <<>>
                  ELSE <<[to |-> "last", value |-> 0]>>

RECURSIVE ApplyMoves(_, _)
ApplyMoves(g, cmds) ==
    IF cmds = <<>> THEN g
    ELSE ApplyMoves(MoveActiveEditor(g, Head(cmds)), Tail(cmds))

----------------------------------------------------------------------------
(* The extension's handlers, as transformers of the part of the state a    *)
(* listener can touch                                                      *)

Snapshot ==
    [tabs |-> tabs, isDebouncing |-> isDebouncing, timers |-> timers,
     calls |-> 0, evals |-> 0, moves |-> <<>>,
     window |-> window, sinceFire |-> sinceFire, fires |-> fires]

\* variant: the handler issues nothing while the debounce flag is set
ExecuteMoveTabWhenIdle(s) ==
    IF ~activated THEN s
    ELSE LET cmds == IF isDebouncing THEN <<>>
                     ELSE MoveTabCommands(groupActive, s.tabs, fixedTabs, activeFirst)
         IN  [s EXCEPT !.tabs = ApplyMoves(@, cmds),
                       !.moves = @ \o cmds,
                       !.evals = @ + 1]

\* vscode.commands.executeCommand('smart-tabs.moveTab'): the registered
\* handler runs and the host carries out the move it issues
ExecuteMoveTab(s) ==
    IF ~activated THEN s
    ELSE LET cmds == MoveTabCommands(groupActive, s.tabs, fixedTabs, activeFirst)
         IN  [s EXCEPT !.tabs = ApplyMoves(@, cmds),
                       !.moves = @ \o cmds,
                       !.evals = @ + 1]

\* setTimeout(() => { isDebouncing = false; }, delay)
SetTimeout(ts, delay) == Append(ts, Max(delay, 0))

\* variant: the callback leaves the flag as it is
TimerCallbackKeeps(flag) == flag

\* state of the flag after the timer callback has run
TimerCallback(flag) == FALSE

\* variant: no special case for a zero delay
DebounceDisabledNever(delay) == FALSE

\* the test that turns debouncing off
DebounceDisabled(delay) == delay = 0

\* variant: the listener never looks at the flag
moveTabWithDebounceNoGuard(s) ==
    LET c == [s EXCEPT !.calls = @ + 1]
    IN  IF DebounceDisabled(debounceDelay)
        THEN ExecuteMoveTab(c)
        ELSE [ExecuteMoveTab(c) EXCEPT
                  !.isDebouncing = TRUE,
                  !.timers = SetTimeout(@, debounceDelay),
                  !.window = debounceDelay,
                  !.sinceFire = 0,
                  !.fires = Min(@ + 1, FiresCap)]

\* variant: the timer is started but the flag is not set
moveTabWithDebounceNoFlag(s) ==
    LET c == [s EXCEPT !.calls = @ + 1]
    IN  IF DebounceDisabled(debounceDelay)
        THEN ExecuteMoveTab(c)
        ELSE IF c.isDebouncing
             THEN c
             ELSE [ExecuteMoveTab(c) EXCEPT
                       !.timers = SetTimeout(@, debounceDelay),
                       !.window = debounceDelay,
                       !.sinceFire = 0,
                       !.fires = Min(@ + 1, FiresCap)]

\* the listener of every reaction subscription
moveTabWithDebounce(s) ==
    LET c == [s EXCEPT !.calls = @ + 1]
    IN  IF DebounceDisabled(debounceDelay)
        THEN ExecuteMoveTab(c)
        ELSE IF c.isDebouncing
             THEN c
             ELSE [ExecuteMoveTab(c) EXCEPT
                       !.isDebouncing = TRUE,
                       !.timers = SetTimeout(@, debounceDelay),
                       !.window = debounceDelay,
                       !.sinceFire = 0,
                       !.fires = Min(@ + 1, FiresCap)]

\* the host fires an event on a stream: every live subscription on that
\* stream has its listener called, in subscription order
RECURSIVE Deliver(_, _, _)
Deliver(s, subs, stream) ==
    IF subs = <<>> THEN s
    ELSE Deliver(IF Head(subs) = stream THEN moveTabWithDebounce(s) ELSE s,
                 Tail(subs), stream)

\* defaults the manifest contributes for the four settings
ManifestDefaults ==
    [fixedTabs |-> <<3>>, activeFirst |-> <<TRUE>>,
     debounceDelay |-> <<300>>, reactionEvent |-> <<"edit">>]

\* config.get(key, default): the value the user stored (v is <<>> when there
\* is none), else the default the manifest contributes for the key, else the
\* default passed by the caller
ConfigGet(v, contributed, default) ==
    IF v # <<>> THEN v[1]
    ELSE IF contributed # <<>> THEN contributed[1]
    ELSE default

\* the settings store after the user has written ft, af, dd, re (<<>>: unset)
Stored(ft, af, dd, re) ==
    [fixedTabs |-> ft, activeFirst |-> af, debounceDelay |-> dd, reactionEvent |-> re]

\* loadConfigurations: the four globals read from the store
loadConfigurations(st) ==
    [fixedTabs |-> ConfigGet(st.fixedTabs, ManifestDefaults.fixedTabs, FIXED_TABS),
     activeFirst |-> ConfigGet(st.activeFirst, ManifestDefaults.activeFirst, ACTIVE_FIRST),
     debounceDelay |-> ConfigGet(st.debounceDelay, ManifestDefaults.debounceDelay,
                                 DEFAULT_DEBOUNCE_DELAY),
     reactionEvent |-> ConfigGet(st.reactionEvent, ManifestDefaults.reactionEvent,
                                 DEFAULT_REACTION_EVENT)]

\* the globals hold what loadConfigurations returned
Loaded(c) ==
    /\ fixedTabs' = c.fixedTabs
    /\ activeFirst' = c.activeFirst
    /\ debounceDelay' = c.debounceDelay
    /\ reactionEvent' = c.reactionEvent

\* stream the switch of setupEventListeners subscribes to
StreamOf(re) ==
    IF re = "onfocus" THEN "onDidChangeActiveTextEditor"
    ELSE IF re = "onsave" THEN "onWillSaveTextDocument"
    ELSE "onDidChangeTextDocument"

\* variant: the old subscriptions are left in place
DisposeNone(subs) == subs

\* disposables.forEach(disposable => disposable.dispose()); disposables = []
DisposeAll(subs) == <<>>

\* setupEventListeners: every old subscription is disposed, one is installed
setupEventListeners(subs, re) == Append(DisposeAll(subs), StreamOf(re))

Commit(s, name) ==
    /\ tabs' = s.tabs
    /\ isDebouncing' = s.isDebouncing
    /\ timers' = s.timers
    /\ window' = s.window
    /\ sinceFire' = s.sinceFire
    /\ fires' = s.fires
    /\ op' = name
    /\ calls' = s.calls
    /\ evals' = s.evals
    /\ moves' = s.moves
    /\ scanResult' = scanResult

Quiet(name) ==
    /\ op' = name
    /\ calls' = 0
    /\ evals' = 0
    /\ moves' = <<>>
    /\ scanResult' = scanResult

----------------------------------------------------------------------------
(* Actions of the extension                                                *)

\* variant: the direct invocation goes through the debouncer
MoveTabDebounced ==
    /\ activated
    /\ Commit(moveTabWithDebounce(Snapshot), "command")
    /\ UNCHANGED <<groupActive, cfgVars, settings, disposables, activated>>

\* the command invoked directly (command palette, key binding)
MoveTab ==
    /\ activated
    /\ Commit(ExecuteMoveTab(Snapshot), "command")
    /\ UNCHANGED <<groupActive, cfgVars, settings, disposables, activated>>

\* a host event on one of the streams
HostEvent(stream) ==
    /\ Commit(Deliver(Snapshot, disposables, stream), "event")
    /\ UNCHANGED <<groupActive, cfgVars, settings, disposables, activated>>

\* an outstanding timer that is due runs its callback (the earliest set first)
TimerFire ==
    /\ \E i \in 1 .. Len(timers) :
          /\ timers[i] = 0
          /\ \A j \in 1 .. i - 1 : timers[j] # 0
          /\ timers' = RemoveAt(timers, i)
    /\ isDebouncing' = TimerCallback(isDebouncing)
    /\ Quiet("timer")
    /\ UNCHANGED <<hostVars, cfgVars, settings, disposables, activated, timeVars>>

SinceCap == DEFAULT_DEBOUNCE_DELAY + Tick

\* the clock advances, never past the moment an outstanding timer is due
Advance ==
    /\ \A i \in 1 .. Len(timers) : timers[i] > 0
    /\ LET d == IF timers = <<>> THEN Tick
                ELSE Min(Tick, CHOOSE m \in {timers[i] : i \in 1 .. Len(timers)} :
                                 \A i \in 1 .. Len(timers) : m <= timers[i])
       IN  /\ timers' = [i \in 1 .. Len(timers) |-> timers[i] - d]
           /\ sinceFire' = Min(sinceFire + d, SinceCap)
    /\ Quiet("advance")
    /\ UNCHANGED <<hostVars, cfgVars, settings, isDebouncing, disposables,
                   activated, window, fires>>

\* variant: a reload also clears the debounce flag
OnDidChangeConfigurationResets(affects, ft, af, dd, re) ==
    /\ activated
    /\ IF affects
       THEN /\ settings' = Stored(ft, af, dd, re)
            /\ Loaded(loadConfigurations(settings'))
            /\ disposables' = setupEventListeners(disposables, reactionEvent')
            /\ isDebouncing' = FALSE
       ELSE UNCHANGED <<cfgVars, settings, disposables, isDebouncing>>
    /\ Quiet("config")
    /\ UNCHANGED <<hostVars, timers, activated, timeVars>>

\* variant: a change of the smart-tabs settings re-subscribes but leaves the
\* globals as they were
OnDidChangeConfigurationStale(affects, ft, af, dd, re) ==
    /\ activated
    /\ IF affects
       THEN /\ settings' = Stored(ft, af, dd, re)
            /\ disposables' = setupEventListeners(disposables, reactionEvent)
            /\ UNCHANGED cfgVars
       ELSE UNCHANGED <<cfgVars, settings, disposables>>
    /\ Quiet("config")
    /\ UNCHANGED <<hostVars, isDebouncing, timers, activated, timeVars>>

\* onDidChangeConfiguration: reload and re-subscribe when the change affects
\* the smart-tabs namespace; ft, af, dd, re are what the settings store holds
OnDidChangeConfiguration(affects, ft, af, dd, re) ==
    /\ activated
    /\ IF affects
       THEN /\ settings' = Stored(ft, af, dd, re)
            /\ Loaded(loadConfigurations(settings'))
            /\ disposables' = setupEventListeners(disposables, reactionEvent')
       ELSE UNCHANGED <<cfgVars, settings, disposables>>
    /\ Quiet("config")
    /\ UNCHANGED <<hostVars, isDebouncing, timers, activated, timeVars>>

Deactivate ==
    /\ activated
    /\ disposables' = DisposeAll(disposables)
    /\ activated' = FALSE
    /\ Quiet("deactivate")
    /\ UNCHANGED <<hostVars, cfgVars, settings, isDebouncing, timers, timeVars>>

----------------------------------------------------------------------------
(* The user's own tab operations in the host                               *)

IndexOf(g, l) == CHOOSE i \in 1 .. Len(g) : g[i].label = l
LabelsOf(g) == {g[i].label : i \in 1 .. Len(g)}
Activate(g, l) == [i \in 1 .. Len(g) |-> [g[i] EXCEPT !.isActive = (g[i].label = l)]]

UserEnv(name) ==
    /\ Quiet(name)
    /\ UNCHANGED <<groupActive, cfgVars, settings, extVars, timeVars>>

\* the user focuses a tab
UserActivateTab ==
    /\ groupActive
    /\ \E l \in LabelsOf(tabs) : tabs' = Activate(tabs, l)
    /\ UserEnv("user")

\* the user pins a tab: the host moves it to the end of the pinned run
UserPinTab ==
    /\ \E l \in LabelsOf(tabs) :
          LET i == IndexOf(tabs, l)
          IN  /\ ~tabs[i].isPinned
              /\ tabs' = InsertAt(RemoveAt(tabs, i), StickyCount(tabs) + 1,
                                  [tabs[i] EXCEPT !.isPinned = TRUE])
    /\ UserEnv("user")

\* the user unpins a tab: the host moves it right behind the pinned run
UserUnpinTab ==
    /\ \E l \in LabelsOf(tabs) :
          LET i == IndexOf(tabs, l)
          IN  /\ tabs[i].isPinned
              /\ tabs' = InsertAt(RemoveAt(tabs, i), StickyCount(tabs),
                                  [tabs[i] EXCEPT !.isPinned = FALSE])
    /\ UserEnv("user")

\* the user opens a document: its tab is appended and becomes the active one
UserOpenTab ==
    /\ groupActive
    /\ Len(tabs) < MaxTabs
    /\ \E l \in Labels \ LabelsOf(tabs) :
          tabs' = Append([i \in 1 .. Len(tabs) |-> [tabs[i] EXCEPT !.isActive = FALSE]],
                         [label |-> l, isPinned |-> FALSE, isActive |-> TRUE])
    /\ UserEnv("user")

\* the window gains or loses its active tab group (only an empty group goes)
HostGroupChange ==
    /\ tabs = <<>>
    /\ groupActive' = ~groupActive
    /\ tabs' = tabs
    /\ Quiet("user")
    /\ UNCHANGED <<cfgVars, settings, extVars, timeVars>>

\* the user closes a tab: if it was the active one another tab becomes active
UserCloseTab ==
    /\ \E l \in LabelsOf(tabs) :
          LET i == IndexOf(tabs, l)
              rest == RemoveAt(tabs, i)
          IN  IF tabs[i].isActive /\ rest # <<>>
              THEN \E n \in LabelsOf(rest) : tabs' = Activate(rest, n)
              ELSE tabs' = rest
    /\ UserEnv("user")

----------------------------------------------------------------------------
(* Initial states and specifications                                       *)

\* a group of n tabs labelled 1..n, the first p pinned, tab a active
Group(n, p, a) ==
    [i \in 1 .. n |-> [label |-> i, isPinned |-> i <= p, isActive |-> i = a]]

\* activate: loadConfigurations, setupEventListeners, the command and the
\* configuration listener registered
InitExtension ==
    /\ LET c == loadConfigurations(settings)
       IN  /\ fixedTabs = c.fixedTabs
           /\ activeFirst = c.activeFirst
           /\ debounceDelay = c.debounceDelay
           /\ reactionEvent = c.reactionEvent
    /\ isDebouncing = FALSE
    /\ timers = <<>>
    /\ disposables = setupEventListeners(<<>>, reactionEvent)
    /\ activated = TRUE
    /\ op = "activate"
    /\ calls = 0
    /\ evals = 0
    /\ moves = <<>>
    /\ scanResult = <<>>
    /\ window = 0
    /\ sinceFire = SinceCap
    /\ fires = 0

\* Policy specification: every tab list, every direction, every fixedTabs
Init ==
    /\ \/ /\ groupActive = TRUE
          /\ \E n \in 0 .. MaxTabs : \E p \in 0 .. n :
                \E a \in (IF n = 0 THEN {0} ELSE 1 .. n) : tabs = Group(n, p, a)
       \/ /\ groupActive = FALSE
          /\ tabs = <<>>
    /\ \/ \E ft \in FixedTabsSettings : \E af \in BOOLEAN :
             settings = Stored(<<ft>>, <<af>>, <<>>, <<>>)
       \/ settings = Stored(<<>>, <<>>, <<>>, <<>>)
    /\ InitExtension

ReloadPolicy ==
    \/ \E ft \in FixedTabsSettings : \E af \in BOOLEAN :
          OnDidChangeConfiguration(TRUE, <<ft>>, <<af>>, <<>>, <<>>)
    \/ OnDidChangeConfiguration(TRUE, <<>>, <<>>, <<>>, <<>>)
    \/ OnDidChangeConfiguration(FALSE, settings.fixedTabs, settings.activeFirst,
                                settings.debounceDelay, settings.reactionEvent)

Next ==
    \/ MoveTab
    \/ ReloadPolicy
    \/ UserActivateTab
    \/ UserPinTab
    \/ UserUnpinTab
    \/ UserOpenTab
    \/ UserCloseTab
    \/ HostGroupChange

Spec == Init /\ [][Next]_vars

\* Debounce specification: events, timers and reloads over a small group
DebounceTabs == 3

InitDebounce ==
    /\ groupActive = TRUE
    /\ \E a \in 1 .. DebounceTabs : tabs = Group(DebounceTabs, 1, a)
    /\ \/ \E dd \in DelaySettings : \E re \in ReactionSettings :
             settings = Stored(<<1>>, <<ACTIVE_FIRST>>, <<dd>>, <<re>>)
       \/ settings = Stored(<<1>>, <<ACTIVE_FIRST>>, <<>>, <<>>)
    /\ InitExtension

ReloadDebounce ==
    \/ \E dd \in DelaySettings : \E re \in ReactionSettings :
          OnDidChangeConfiguration(TRUE, settings.fixedTabs, settings.activeFirst,
                                   <<dd>>, <<re>>)
    \/ OnDidChangeConfiguration(TRUE, settings.fixedTabs, settings.activeFirst,
                                <<>>, <<>>)
    \/ OnDidChangeConfiguration(FALSE, settings.fixedTabs, settings.activeFirst,
                                settings.debounceDelay, settings.reactionEvent)

HostEvents == \E stream \in Streams : HostEvent(stream)

NextDebounce ==
    \/ HostEvents
    \/ TimerFire
    \/ Advance
    \/ ReloadDebounce
    \/ MoveTab
    \/ Deactivate
    \/ UserActivateTab

SpecDebounce == InitDebounce /\ [][NextDebounce]_vars

\* Scan specification: getPositionAfterLastPinnedTab applied to every tab
\* list, whether or not its pinned tabs form a prefix
MaxScanTabs == 4

\* n tabs labelled 1..n, the ones in P pinned, tab a active (none when a = 0)
AnyGroup(n, P, a) ==
    [i \in 1 .. n |-> [label |-> i, isPinned |-> i \in P, isActive |-> i = a]]

InitScan ==
    /\ groupActive = TRUE
    /\ \E n \in 0 .. MaxScanTabs : \E P \in SUBSET (1 .. n) : \E a \in 0 .. n :
          tabs = AnyGroup(n, P, a)
    /\ settings = Stored(<<>>, <<>>, <<>>, <<>>)
    /\ InitExtension

\* const offset = getPositionAfterLastPinnedTab(activeGroup)
ScanTabs ==
    /\ scanResult' = <<getPositionAfterLastPinnedTab(tabs)>>
    /\ op' = "scan"
    /\ calls' = 0
    /\ evals' = 0
    /\ moves' = <<>>
    /\ UNCHANGED <<hostVars, cfgVars, settings, extVars, timeVars>>

NextScan == ScanTabs

SpecScan == InitScan /\ [][NextScan]_vars

----------------------------------------------------------------------------
(* Vocabulary of the properties, stated on the tab list itself             *)

\* number of leading pinned tabs
PinnedPrefixLength(g) ==
    CHOOSE k \in 0 .. Len(g) :
        /\ \A i \in 1 .. k : g[i].isPinned
        /\ k < Len(g) => ~g[k + 1].isPinned

HasActive(g) == \E i \in 1 .. Len(g) : g[i].isActive

\* 0-based index of the active tab (of a list that has one)
ActiveIndex(g) == (CHOOSE i \in 1 .. Len(g) : g[i].isActive) - 1

ActiveLabel(g) == g[ActiveIndex(g) + 1].label

UnpinnedActive(g) == HasActive(g) /\ ~g[ActiveIndex(g) + 1].isPinned

DistanceFromEnd(g) == Len(g) - ActiveIndex(g) - 1

\* this step ran smart-tabs.moveTab
Evaluated == evals' >= 1

\* this step ran smart-tabs.moveTab and no move came out of it
NoMoveIssued == moves' = <<>> /\ tabs' = tabs

\* the host guarantee: the pinned tabs are a prefix of the list, and at most
\* one tab is active
HostGuarantee ==
    /\ \A i, j \in 1 .. Len(tabs) : (i < j /\ tabs[j].isPinned) => tabs[i].isPinned
    /\ \A i, j \in 1 .. Len(tabs) : (tabs[i].isActive /\ tabs[j].isActive) => i = j

----------------------------------------------------------------------------
(* Policy properties, checked under Spec                                   *)

\* C1: whenever the active tab is pinned, an evaluation issues no move,
\* whatever the tab list, fixedTabs and activeFirst are.
C1_PinnedActiveNeverMoves ==
    [][(Evaluated /\ HasActive(tabs) /\ tabs[ActiveIndex(tabs) + 1].isPinned)
          => NoMoveIssued]_vars

\* an evaluation has just run on a pinned active tab that lies outside the
\* fixed band of the end direction
C1_Witness ==
    /\ op = "command" /\ evals = 1 /\ moves = <<>>
    /\ HasActive(tabs) /\ tabs[ActiveIndex(tabs) + 1].isPinned
    /\ ~activeFirst /\ DistanceFromEnd(tabs) >= fixedTabs

\* C2: with activeFirst, an unpinned active tab at index i is not moved when
\* i < fixedTabs + pinnedPrefixLength.
C2_WithinStartBandNoMove ==
    [][(Evaluated /\ activeFirst /\ UnpinnedActive(tabs)
          /\ ActiveIndex(tabs) < fixedTabs + PinnedPrefixLength(tabs))
          => NoMoveIssued]_vars

\* an evaluation has just left alone a tab that is inside the band only
\* because the pinned run does not count against fixedTabs
C2_Witness ==
    /\ op = "command" /\ evals = 1 /\ moves = <<>>
    /\ activeFirst /\ UnpinnedActive(tabs)
    /\ PinnedPrefixLength(tabs) = 2
    /\ ActiveIndex(tabs) >= fixedTabs
    /\ ActiveIndex(tabs) < fixedTabs + PinnedPrefixLength(tabs)

\* C3: without activeFirst, an unpinned active tab at index i of n tabs is
\* not moved when n - i - 1 < fixedTabs, however many tabs are pinned.
C3_WithinEndBandNoMove ==
    [][(Evaluated /\ ~activeFirst /\ UnpinnedActive(tabs)
          /\ Len(tabs) - ActiveIndex(tabs) - 1 < fixedTabs)
          => NoMoveIssued]_vars

\* an evaluation has just left alone a tab inside the end band of a list
\* with pinned tabs, at an index that is not below fixedTabs
C3_Witness ==
    /\ op = "command" /\ evals = 1 /\ moves = <<>>
    /\ ~activeFirst /\ UnpinnedActive(tabs)
    /\ PinnedPrefixLength(tabs) >= 1
    /\ DistanceFromEnd(tabs) < fixedTabs
    /\ ActiveIndex(tabs) >= fixedTabs

\* C4: with activeFirst, an unpinned active tab at index i >= fixedTabs +
\* pinnedPrefixLength is moved to the position right after the pinned run;
\* it then sits at index pinnedPrefixLength, which is <= i.
C4_MoveToStartLandsAfterPinned ==
    [][(Evaluated /\ activeFirst /\ UnpinnedActive(tabs)
          /\ ActiveIndex(tabs) >= fixedTabs + PinnedPrefixLength(tabs))
          => /\ Len(moves') = 1
             /\ moves'[1].to = "position"
             /\ moves'[1].value - 1 = PinnedPrefixLength(tabs)
             /\ HasActive(tabs')
             /\ ActiveLabel(tabs') = ActiveLabel(tabs)
             /\ ActiveIndex(tabs') = PinnedPrefixLength(tabs)
             /\ PinnedPrefixLength(tabs) <= ActiveIndex(tabs)]_vars

\* a move toward the start has just been carried out in a list with pinned
\* tabs, from beyond a non-empty fixed band
C4_Witness ==
    /\ op = "command" /\ evals = 1 /\ Len(moves) = 1
    /\ moves[1].to = "position"
    /\ activeFirst /\ fixedTabs >= 1
    /\ PinnedPrefixLength(tabs) >= 1
    /\ HasActive(tabs) /\ ActiveIndex(tabs) = PinnedPrefixLength(tabs)

\* C5: without activeFirst, an unpinned active tab whose distance from the
\* end is >= fixedTabs is moved, and is the last tab afterwards.
C5_MoveToEndLandsLast ==
    [][(Evaluated /\ ~activeFirst /\ UnpinnedActive(tabs)
          /\ DistanceFromEnd(tabs) >= fixedTabs)
          => /\ Len(moves') = 1
             /\ moves'[1].to = "last"
             /\ Len(tabs') = Len(tabs)
             /\ HasActive(tabs')
             /\ ActiveLabel(tabs') = ActiveLabel(tabs)
             /\ ActiveIndex(tabs') = Len(tabs') - 1]_vars

\* a move to the end has just been carried out past a non-empty fixed band
C5_Witness ==
    /\ op = "command" /\ evals = 1 /\ Len(moves) = 1
    /\ moves[1].to = "last"
    /\ ~activeFirst /\ fixedTabs >= 1
    /\ Len(tabs) >= 2
    /\ HasActive(tabs) /\ ActiveIndex(tabs) = Len(tabs) - 1

\* C6: an evaluation leaves the pinned tabs where they are: the leading
\* positions hold the same pinned tabs in the same order, and no other tab
\* becomes pinned or lands among them; the pinned tabs stay a prefix.
C6_PinnedRunUntouched ==
    [][Evaluated
          => /\ Len(tabs') = Len(tabs)
             /\ \A i \in 1 .. Len(tabs) :
                   /\ tabs'[i].isPinned = tabs[i].isPinned
                   /\ tabs[i].isPinned => tabs'[i].label = tabs[i].label
             /\ HostGuarantee']_vars

\* a tab has just been moved from the end of a list of three to the slot
\* right behind its one pinned tab
C6_Witness ==
    /\ op = "command" /\ evals = 1
    /\ moves = <<[to |-> "position", value |-> 2]>>
    /\ fixedTabs = 1
    /\ Len(tabs) = 3
    /\ tabs[1].isPinned /\ ~tabs[2].isPinned /\ tabs[2].isActive

\* slots (1-based) of the fixed band of a list under the cached configuration
FixedBand(g) ==
    IF activeFirst
    THEN {i \in 1 .. Len(g) : /\ i > PinnedPrefixLength(g)
                              /\ i <= PinnedPrefixLength(g) + fixedTabs}
    ELSE {i \in 1 .. Len(g) : i > Len(g) - fixedTabs}

\* C7: no automatic move changes which tabs occupy the slots of the fixed
\* band, or their positions.
C7_FixedBandUntouched ==
    [][Evaluated => \A i \in FixedBand(tabs) : tabs'[i].label = tabs[i].label]_vars

----------------------------------------------------------------------------
(* Debounce properties, checked under SpecDebounce                         *)

\* this step delivered one reaction event to moveTabWithDebounce
ReactionDelivered == op' = "event" /\ calls' = 1

C9_ZeroDelayNeverSuppresses ==
    [][(ReactionDelivered /\ debounceDelay = 0)
          => /\ evals' = 1
             /\ isDebouncing' = isDebouncing
             /\ timers' = timers]_vars

\* a reaction event has just run the command under a zero delay while the
\* flag of an earlier window was still set
C9_Witness ==
    /\ op = "event" /\ calls = 1 /\ evals = 1
    /\ debounceDelay = 0
    /\ isDebouncing /\ timers # <<>>

\* C10: the timer callback always leaves the debouncer Idle, and a reaction
\* event delivered after the window has elapsed runs the command.
C10_WindowElapsesThenFiresAgain ==
    [][/\ op' = "timer" => ~isDebouncing'
       /\ (ReactionDelivered /\ sinceFire > window) => evals' = 1]_vars

\* a second debounced execution has just happened under the default delay
C10_Witness ==
    /\ op = "event" /\ calls = 1 /\ evals = 1
    /\ debounceDelay = DEFAULT_DEBOUNCE_DELAY
    /\ window = DEFAULT_DEBOUNCE_DELAY
    /\ fires = 2 /\ isDebouncing /\ sinceFire = 0

----------------------------------------------------------------------------
(* Reload and subscription properties, checked under SpecDebounce          *)

\* C11 as stated: a configuration reload that happens while the debouncer is
\* Pending leaves it Idle.
C11_ReloadResetsDebounce ==
    [][(op' = "config" /\ cfgVars' # cfgVars /\ isDebouncing) => ~isDebouncing']_vars

\* C11 as amended: a configuration reload leaves the debounce flag and the
\* outstanding timer as they are, so until the timer started before the
\* reload has elapsed a reaction event under a non-zero delay is dropped.
C11_ReloadKeepsDebounce ==
    [][/\ op' = "config" => UNCHANGED <<isDebouncing, timers>>
       /\ (ReactionDelivered /\ debounceDelay > 0 /\ sinceFire < window)
            => /\ evals' = 0
               /\ UNCHANGED <<hostVars, isDebouncing, timers>>]_vars

\* a reaction event has just been dropped after a reload changed the delay,
\* inside the window of the timer started before the reload
C11_Witness ==
    /\ op = "event" /\ calls = 1 /\ evals = 0
    /\ isDebouncing /\ timers # <<>>
    /\ debounceDelay > 0 /\ debounceDelay # window
    /\ sinceFire < window

\* streams the specification assigns to a reaction event
ClaimedStreams(re) ==
    IF re = "onedit" THEN {"onDidChangeTextDocument"}
    ELSE IF re = "onsave" THEN {"onWillSaveTextDocument"}
    ELSE IF re = "onfocus" THEN {"onDidChangeActiveTextEditor"}
    ELSE IF re = "onopen" THEN {"onDidOpenTextDocument"}
    ELSE {}

SubscribedStreams(subs) == {subs[i] : i \in 1 .. Len(subs)}

\* C12: the subscription is the one on the stream of reactionEvent (onedit:
\* content change, onsave: pre-save, onfocus: active editor change, onopen:
\* tab opened), and an event on any other stream triggers no evaluation.
C12_SubscriptionFollowsReactionEvent ==
    [][(activated /\ reactionEvent \in {"onedit", "onsave", "onfocus", "onopen"})
          => /\ SubscribedStreams(disposables) = ClaimedStreams(reactionEvent)
             /\ \A stream \in Streams \ ClaimedStreams(reactionEvent) :
                   HostEvent(stream) => evals' = 0]_vars

\* C13: with reactionEvent none no subscription is held and no host event
\* triggers an evaluation.
C13_NoneHoldsNoSubscription ==
    [][(activated /\ reactionEvent = "none")
          => /\ disposables = <<>>
             /\ op' = "event" => (calls' = 0 /\ evals' = 0)]_vars

\* C14: at most one reaction subscription is live, and after a reload that
\* changes reactionEvent no subscription on the stream of the previously
\* configured event is left.
C14_OldSubscriptionGone ==
    [][/\ Len(disposables') <= 1
       /\ (op' = "config" /\ reactionEvent' # reactionEvent)
            => SubscribedStreams(disposables') \cap ClaimedStreams(reactionEvent) = {}]_vars

\* C15: after deactivate the subscription collection is empty and a host
\* event reaches no listener and triggers no evaluation.
C15_DeactivateReleasesSubscriptions ==
    [][/\ ~activated' => disposables' = <<>>
       /\ (~activated /\ op' = "event")
            => /\ calls' = 0
               /\ evals' = 0
               /\ moves' = <<>>
               /\ UNCHANGED <<hostVars, cfgVars, extVars>>]_vars

\* a host event has just been delivered after deactivation, with debouncing
\* off, and nothing ran
C15_Witness ==
    /\ ~activated /\ op = "event"
    /\ calls = 0 /\ evals = 0
    /\ disposables = <<>>
    /\ debounceDelay = 0

----------------------------------------------------------------------------
(* Degenerate inputs, configuration ranges and idempotence, checked under  *)
(* Spec                                                                    *)

\* C16: an evaluation made while no tab group is active issues no move and
\* changes nothing of the tabs, the configuration or the extension's state.
C16_NoActiveGroupEndsSilently ==
    [][(Evaluated /\ ~groupActive)
          => /\ moves' = <<>>
             /\ evals' = 1
             /\ UNCHANGED <<hostVars, cfgVars, extVars>>]_vars

\* smart-tabs.moveTab has just run without an active group, under a
\* configuration whose band tests alone would not have stopped it
C16_Witness ==
    /\ op = "command" /\ evals = 1
    /\ ~groupActive
    /\ moves = <<>>
    /\ fixedTabs <= 0

\* C17: an evaluation made while the active group has no active tab issues no
\* move, whatever the tab list and the configuration.
C17_NoActiveTabNoMove ==
    [][(Evaluated /\ groupActive /\ ~HasActive(tabs)) => moves' = <<>>]_vars

AllPinned(g) == g # <<>> /\ \A i \in 1 .. Len(g) : g[i].isPinned

\* C18: an evaluation of an empty tab list, of a list whose tabs are all
\* pinned, or of a list no longer than fixedTabs issues no move, for both
\* values of activeFirst.
C18_DegenerateInputsNoMove ==
    [][(Evaluated /\ groupActive
          /\ (tabs = <<>> \/ AllPinned(tabs) \/ Len(tabs) <= fixedTabs))
          => NoMoveIssued]_vars

\* C19: the cached configuration values are always inside their declared
\* ranges: fixedTabs in 1..9, debounceDelay in 0..5000, reactionEvent one of
\* the enumerated events.
C19_ConfigurationInRange ==
    /\ fixedTabs \in 1 .. 9
    /\ debounceDelay \in 0 .. 5000
    /\ reactionEvent \in ReactionSettings

\* C20: once smart-tabs.moveTab has run, running it again with nothing changed
\* in between issues no move and leaves the tab order as it is.
C20_SecondRunIssuesNoMove ==
    (op = "command" /\ evals = 1)
        => LET cmds == MoveTabCommands(groupActive, tabs, fixedTabs, activeFirst)
           IN  /\ cmds = <<>>
               /\ ApplyMoves(tabs, cmds) = tabs

----------------------------------------------------------------------------
(* Configuration, determinism and frame properties                         *)

\* the cached configuration, as a record
Cached ==
    [fixedTabs |-> fixedTabs, activeFirst |-> activeFirst,
     debounceDelay |-> debounceDelay, reactionEvent |-> reactionEvent]

\* C21: the cached configuration is what the settings store yields, at start
\* and after every step, so an evaluation made after a change of the
\* smart-tabs settings decides with the new values; the settings change only
\* in a configuration step, and a configuration step that leaves the
\* smart-tabs settings as they are leaves the cached configuration, the
\* subscriptions and the debounce state as they are.
C21_ReloadFollowsSettings ==
    [][/\ Cached = loadConfigurations(settings)
       /\ Cached' = loadConfigurations(settings')
       /\ settings' # settings => op' = "config"
       /\ Evaluated =>
             LET c == loadConfigurations(settings)
             IN  moves' = MoveTabCommands(groupActive, tabs, c.fixedTabs, c.activeFirst)
       /\ (op' = "config" /\ settings' = settings)
             => UNCHANGED <<cfgVars, extVars, hostVars>>]_vars

\* a reload has just loaded values the user stored, none of them a default
C21_Witness ==
    /\ op = "config"
    /\ settings.fixedTabs = <<1>> /\ settings.activeFirst = <<FALSE>>
    /\ fixedTabs = 1 /\ ~activeFirst
    /\ tabs # <<>>

\* C22: the moves an evaluation issues are a function of the tab list (with
\* its active tab), the presence of the group and the cached fixedTabs and
\* activeFirst alone: whatever the debounce flag, the timers, the
\* subscriptions and the steps taken before, an evaluation issues exactly
\* the moves the decision gives for these inputs.
C22_DecisionDeterministic ==
    [][Evaluated
          => /\ evals' = 1
             /\ moves' = MoveTabCommands(groupActive, tabs, fixedTabs, activeFirst)
             /\ tabs' = ApplyMoves(tabs, moves')]_vars

\* an evaluation has just issued a move while the debounce flag was set and
\* a timer outstanding
C22_Witness ==
    /\ op = "command" /\ evals = 1
    /\ moves # <<>>
    /\ isDebouncing /\ timers # <<>>

\* C23: when the user has stored none of the four settings, the extension
\* runs with fixedTabs = 3, activeFirst = true, debounceDelay = 300 and
\* reactionEvent = onedit, subscribed to the content-change stream.
C23_DefaultsWhenUnset ==
    (activated /\ settings = Stored(<<>>, <<>>, <<>>, <<>>))
        => /\ fixedTabs = FIXED_TABS
           /\ activeFirst = ACTIVE_FIRST
           /\ debounceDelay = DEFAULT_DEBOUNCE_DELAY
           /\ reactionEvent = DEFAULT_REACTION_EVENT
           /\ disposables = <<"onDidChangeTextDocument">>

\* number of pinned tabs of a list, wherever they are
PinnedCount(g) == Cardinality({i \in 1 .. Len(g) : g[i].isPinned})

\* C24: getPositionAfterLastPinnedTab returns the number of leading pinned
\* tabs: every tab before the returned position is pinned and the tab at it,
\* if there is one, is not, so pinned tabs behind an unpinned one are not
\* counted; the result is 0 for an empty list and for a list whose first tab
\* is unpinned, and it never exceeds the length of the list.
C24_PinnedPrefixLength ==
    [][op' = "scan" =>
          LET r == scanResult'[1]
          IN  /\ r = PinnedPrefixLength(tabs)
              /\ r \in 0 .. Len(tabs)
              /\ \A i \in 1 .. r : tabs[i].isPinned
              /\ r < Len(tabs) => ~tabs[r + 1].isPinned
              /\ (tabs = <<>> \/ ~tabs[1].isPinned) => r = 0]_vars

\* the scan has just returned 1 for a list with a pinned tab behind an
\* unpinned one
C24_Witness ==
    /\ op = "scan"
    /\ scanResult = <<1>>
    /\ PinnedCount(tabs) > 1
    /\ \E i \in 2 .. Len(tabs) : tabs[i].isPinned /\ ~tabs[i - 1].isPinned

\* C25: in every reachable state the debounce flag is set exactly when one
\* delay timer is outstanding, and at most one delay timer is outstanding.
C25_FlagIffOneTimer ==
    /\ Len(timers) <= 1
    /\ isDebouncing <=> Len(timers) = 1

\* a reload has just changed the delay while the flag was set and the timer
\* of the old delay outstanding
C25_Witness ==
    /\ op = "config"
    /\ isDebouncing /\ Len(timers) = 1
    /\ debounceDelay # window

\* C26: a direct invocation of smart-tabs.moveTab evaluates whatever the
\* debounce flag, without passing through moveTabWithDebounce, and leaves
\* the flag and the timers as they are.
C26_DirectCommandBypassesDebouncer ==
    [][op' = "command"
          => /\ evals' = 1
             /\ calls' = 0
             /\ UNCHANGED <<isDebouncing, timers, timeVars>>]_vars

\* the command has just been run directly inside the window of an
\* outstanding timer, where a reaction event would have been dropped
C26_Witness ==
    /\ op = "command" /\ evals = 1 /\ calls = 0
    /\ isDebouncing /\ Len(timers) = 1
    /\ debounceDelay > 0
    /\ sinceFire < window

\* the tabs of a list other than the active one, in their order
IsInactive(t) == ~t.isActive
OtherTabs(g) == SelectSeq(g, IsInactive)

TabSet(g) == {g[i] : i \in 1 .. Len(g)}

\* C27: an evaluation changes at most the position of the active tab: the
\* number of tabs, the tabs themselves with their pinned and active flags and
\* the order of the tabs other than the active one are the same before and
\* after, and the group, the cached configuration, the settings, the
\* subscriptions, the debounce flag and the timers are untouched.
C27_OnlyActiveTabMoves ==
    [][(op' = "command" /\ Evaluated)
          => /\ Len(tabs') = Len(tabs)
             /\ TabSet(tabs') = TabSet(tabs)
             /\ OtherTabs(tabs') = OtherTabs(tabs)
             /\ UNCHANGED <<groupActive, cfgVars, settings, extVars>>]_vars

\* an evaluation has just moved the active tab to the end of a list of three
\* tabs that earlier moves had already reordered
C27_Witness ==
    /\ op = "command" /\ evals = 1
    /\ moves = <<[to |-> "last", value |-> 0]>>
    /\ Len(tabs) = 3
    /\ tabs[3].isActive
    /\ tabs[1].label > tabs[2].label

\* C28: a step issues at most as many moveActiveEditor commands as it makes
\* evaluations; a host event reaches at most one listener and causes at most
\* one evaluation, and only when it is delivered; a direct invocation makes
\* one evaluation.  So the moves issued by event-triggered evaluations never
\* outnumber the reaction events delivered.
C28_AtMostOneMovePerEvent ==
    [][/\ Len(moves') <= evals'
       /\ op' = "event" => (calls' <= 1 /\ evals' <= calls')
       /\ op' = "command" => evals' <= 1]_vars

\* a pre-save event has just been delivered to the one subscription and its
\* evaluation has issued one move
C28_Witness ==
    /\ op = "event" /\ calls = 1 /\ evals = 1
    /\ Len(moves) = 1
    /\ disposables = <<"onWillSaveTextDocument">>

====
